---- MODULE Spec2Model ----
(***************************************************************************)
(* Connection pool and client lifecycle of internal/ethereum: the pool     *)
(* primitives getConnection / releaseConnection (pool.go), the generic     *)
(* withConnection helper and the GetBalances batch (client.go), and the    *)
(* background managePool / checkConnections loop (pool.go).                *)
(*                                                                         *)
(* Every goroutine is a thread with a program counter.  One step of a      *)
(* thread is one access to shared state (an atomic load or add on          *)
(* connCount, a sync.Pool Get or Put, the errgroup's error slot) or one    *)
(* network round trip, so every interleaving the Go scheduler can produce  *)
(* is a behaviour of the model.  A request goroutine serves one request:   *)
(* it runs one withConnection call, or it is one of the goroutines that    *)
(* GetBalances starts.                                                     *)
(***************************************************************************)
EXTENDS Integers, Sequences, FiniteSets, TLC

\* ---------------------------------------------------------------- bounds
NumGoroutines == 2     \* request goroutines alive besides the pool manager
MaxConnIds == 2        \* connection objects that can be alive at once
MaxListLen == 7        \* longest address list given to the argument checks
MaxArg == 6            \* largest maxAddresses given to the argument checks

\* -------------------------------------------------------- configuration
\* Client.maxConns, from ClientOptions.MaxConns
maxConns == 1
\* client.go:214
DefaultMaxAddr == 5
\* Client.maxIdleConns, from ClientOptions.MaxIdleConns
maxIdleConns == 1

Nil == 0
ConnIds == 1..MaxConnIds
Monitor == 0
Workers == 1..NumGoroutines
Threads == {Monitor} \cup Workers

\* addresses as the HTTP layer passes them: two well-formed ones and one that
\* eth.NewAddress rejects
Addrs == {"a1", "a2", "bad"}

\* block hashes as the HTTP layer passes them, character by character
Hashes == {<<>>, <<"0">>, <<"a", "b">>, <<"0", "x", "a", "b">>}

\* block references as the callers pass them
Refs == {"", "latest", "earliest", "0x1", "bogus"}
\* the from arguments Call is given: an address, or none
Senders == {"", "a1", "bad"}

\* wrappers of withConnection whose block reference is followed to the node
RefMethods == {"GetBalance", "GetBlockByNumber", "Call"}

\* the wrappers of withConnection that take a textual parameter
Methods == {"GetBalance", "GetBlockByHash", "GetBlockTransactionCountByHash"}

VARIABLES
    connCount,      \* Client.connCount, the atomic int32
    connPool,       \* Client.connPool, the objects held by the sync.Pool
    healthCheck,    \* Client.healthCheck
    cancelled,      \* ctx.Done() of the context given to NewClient is closed
    pc,             \* per thread: position in the code
    op,             \* per thread: the operation in progress
    conn,           \* per thread: the local variable conn
    res,            \* per thread: the value the operation returns
    tr,             \* per thread: events of the operation in progress
    hist,           \* last Put by a release and whether the next Get reused it
    addr,           \* per thread: the address a GetBalances goroutine captured
    gbpc,           \* GetBalances: position of the calling goroutine
    addresses,      \* GetBalances: the addresses argument
    maxAddresses,   \* GetBalances: the maxAddresses argument (0: omitted)
    gerr,           \* GetBalances: errgroup.Group.err
    result,         \* GetBalances: the result map
    gbret,          \* GetBalances: the map and the error it returned
    firstErr,       \* GetBalances: the error that arose first in a goroutine
    failedProbe,    \* connections on which the last liveness probe failed
    numberOrTag,    \* per thread: the numberOrTag argument of the wrapper
    numOrTag,       \* per thread: the local variable numOrTag
    from,           \* per thread: the from argument of Call
    upstream,       \* per thread: the block parameter the node was called with
    gbNumberOrTag,  \* GetBalances: the numberOrTag argument
    gbNumOrTag,     \* GetBalances: the local variable numOrTag
    hpc,            \* HTTP handler: position in the code
    request,        \* HTTP handler: the route and its path parameter
    response,       \* HTTP handler: the status and body written by c.JSON
    svcCalls        \* HTTP handler: calls made to the transaction service

poolVars == <<connCount, connPool>>
\* configuration and environment
cfgVars == <<healthCheck, cancelled, failedProbe>>
gbCallVars == <<addr, gbpc, addresses, maxAddresses, gerr, result, gbret>>
\* block references and senders of the per-RPC wrappers
refVars == <<numberOrTag, numOrTag, from, upstream, gbNumberOrTag, gbNumOrTag>>
\* the HTTP layer
httpVars == <<hpc, request, response, svcCalls>>
extVars == <<refVars, httpVars>>
gbVars == <<gbCallVars, firstErr>>
vars == <<connCount, connPool, healthCheck, cancelled, pc, op, conn, res, tr,
          hist, addr, gbpc, addresses, maxAddresses, gerr, result, gbret,
          firstErr, failedProbe, numberOrTag, numOrTag, from, upstream,
          gbNumberOrTag, gbNumOrTag, hpc, request, response, svcCalls>>

NoHist == [put |-> Nil, got |-> FALSE]

\* GetBalances has not returned
NoReturn == [isnil |-> TRUE, m |-> <<>>, err |-> "none"]
\* client.go:210, 220, 270: return nil, err
ReturnErr(e) == [isnil |-> TRUE, m |-> <<>>, err |-> e]
\* client.go:273: return result, nil
ReturnMap(m) == [isnil |-> FALSE, m |-> m, err |-> "none"]

\* ------------------------------------------------------------ helpers
Holders == {p \in Threads : conn[p] # Nil}
Held == {conn[p] : p \in Holders}
Live == connPool \cup Held

\* a connection object that does not exist yet
FreshId == CHOOSE c \in ConnIds \ Live : \A d \in ConnIds \ Live : c <= d

\* node.NewClient(ctx, nodeURL): a new connection, or an error (Nil)
NewClientOutcomes == IF ConnIds \ Live = {} THEN {Nil} ELSE {FreshId, Nil}

PoolFullOffByOne(count) == count > maxConns
\* pool.go:33  atomic.LoadInt32(&c.connCount) >= int32(c.maxConns)
PoolFull(count) == count >= maxConns

PoolGetKeeps(pool) ==
    {[c |-> x, pool |-> pool, from |-> "pool"] : x \in pool}
    \cup {[c |-> x, pool |-> pool, from |-> "new"] : x \in NewClientOutcomes}
\* sync.Pool.Get with the New of client.go:51-58: any pooled object, which
\* is removed from the pool, or (pool empty or ignored) the result of New
PoolGet(pool) ==
    {[c |-> x, pool |-> pool \ {x}, from |-> "pool"] : x \in pool}
    \cup {[c |-> x, pool |-> pool, from |-> "new"] : x \in NewClientOutcomes}

PoolPutDrops(pool, x) == pool
\* sync.Pool.Put
PoolPut(pool, x) == pool \cup {x}

\* ------------------------------------------------- control flow per caller
withConnection_NextNoDefer(at, outcome) ==
    CASE at = "failed" -> "ret"
      [] at = "acquired" -> "fn"
      [] at = "worked" -> IF outcome = "ok" THEN "rc_dec" ELSE "ret"
      [] at = "released" -> "ret"
withConnection_NextEarlyRelease(at, outcome) ==
    CASE at = "failed" -> "ret"
      [] at = "acquired" -> "rc_dec"
      [] at = "worked" -> "ret"
      [] at = "released" -> "fn"
withConnection_NextDeferFirst(at, outcome) ==
    CASE at = "failed" -> "rc_dec"
      [] at = "acquired" -> "fn"
      [] at = "worked" -> "rc_dec"
      [] at = "released" -> "ret"
\* client.go:80-87: return on a failed acquire; otherwise fn(conn), and the
\* deferred releaseConnection(conn) runs whatever fn returns
withConnection_Next(at, outcome) ==
    CASE at = "failed" -> "ret"
      [] at = "acquired" -> "fn"
      [] at = "worked" -> "rc_dec"
      [] at = "released" -> "ret"

checkConnections_NextNoReleaseOnFailure(at, outcome) ==
    CASE at = "failed" -> "hm_wait"
      [] at = "acquired" -> "hc_probe"
      [] at = "worked" -> IF outcome = "ok" THEN "rc_dec" ELSE "hc_replace"
      [] at = "replaced" -> "hm_wait"
      [] at = "released" -> "hm_wait"
\* pool.go:65-79: return on a failed acquire; otherwise the probe, the
\* replacement when the probe failed, and the deferred releaseConnection
checkConnections_Next(at, outcome) ==
    CASE at = "failed" -> "hm_wait"
      [] at = "acquired" -> "hc_probe"
      [] at = "worked" -> IF outcome = "ok" THEN "rc_dec" ELSE "hc_replace"
      [] at = "replaced" -> "rc_dec"
      [] at = "released" -> "hm_wait"

\* client.go:241-263: the body of one goroutine of GetBalances
GetBalances_TaskNext(at, outcome) ==
    CASE at = "failed" -> "t_exit"
      [] at = "acquired" -> "t_body"
      [] at = "worked" -> IF outcome = "ok" THEN "t_store" ELSE "rc_dec"
      [] at = "stored" -> "rc_dec"
      [] at = "released" -> "t_exit"

\* a direct call releaseConnection(conn)
releaseConnection_Next(at, outcome) == "ret"

\* where thread p continues from stage `at` of the operation it runs
NextPc(p, at, outcome) ==
    CASE op[p] \in {"with"} \cup Methods \cup RefMethods ->
             withConnection_Next(at, outcome)
      [] op[p] = "check" -> checkConnections_Next(at, outcome)
      [] op[p] = "task" -> GetBalances_TaskNext(at, outcome)
      [] OTHER -> releaseConnection_Next(at, outcome)

\* ------------------------------------------------------ block references
\* no block parameter (numOrTag not assigned, the node not called)
NoBlock == [kind |-> "none", v |-> ""]
\* the nil *eth.BlockNumberOrTag
NilBlock == [kind |-> "nil", v |-> ""]

\* eth.MustBlockNumberOrTag as client.go:172-175 uses it: the parsed tag or
\* block number, or nil for a string that is neither
MustBlockNumberOrTag(s) ==
    IF s \in {"latest", "earliest", "pending"} THEN [kind |-> "tag", v |-> s]
    ELSE IF s = "0x1" THEN [kind |-> "number", v |-> s]
    ELSE NilBlock

getDefaultNumberOrTagAlways(n) == "latest"
\* client.go:140-145
getDefaultNumberOrTag(n) == IF n = "" THEN "latest" ELSE n

\* ------------------------------------------------------------ HTTP layer
\* net/http status codes the handlers write
StatusOK == 200
StatusInternalServerError == 500

NoRequest == [route |-> "none", param |-> <<>>]
NoResponse == [status |-> 0, error |-> "none"]

\* the handlers of TransactionHandler that read a path parameter
Routes == {"GetTransactionByHash", "GetTransactionByIndex",
           "GetTransactionCount", "GetTransactionReceipt"}

DigitChars == <<"0", "1", "2", "3", "4", "5", "6", "7", "8", "9">>
IsDigit(c) == \E i \in DOMAIN DigitChars : DigitChars[i] = c
DigitVal(c) == (CHOOSE i \in DOMAIN DigitChars : DigitChars[i] = c) - 1

\* 2^64 - 1 and 2^64 in decimal
MaxUint64 == <<"1", "8", "4", "4", "6", "7", "4", "4", "0", "7",
               "3", "7", "0", "9", "5", "5", "1", "6", "1", "5">>
Uint64Overflow == <<"1", "8", "4", "4", "6", "7", "4", "4", "0", "7",
                    "3", "7", "0", "9", "5", "5", "1", "6", "1", "6">>

\* the :index path parameters the router hands over, character by character
IndexParams == {<<>>, <<"0">>, <<"7">>, <<"0", "7">>, <<"1", "2">>,
                <<"-", "1">>, <<"+", "1">>, <<"a">>, <<"1", "x">>,
                MaxUint64, Uint64Overflow}

\* the digits of s without its leading zeros (at least one digit is kept)
RECURSIVE StripZeros(_)
StripZeros(s) ==
    IF Len(s) > 1 /\ s[1] = "0" THEN StripZeros(Tail(s)) ELSE s

\* s < t for two digit strings of the same length
RECURSIVE DigitsLess(_, _)
DigitsLess(s, t) ==
    IF s = <<>> THEN FALSE
    ELSE IF s[1] # t[1] THEN DigitVal(s[1]) < DigitVal(t[1])
    ELSE DigitsLess(Tail(s), Tail(t))

\* the number written by the digit string s is above 2^64 - 1
AboveMaxUint64(s) ==
    LET d == StripZeros(s)
    IN \/ Len(d) > Len(MaxUint64)
       \/ Len(d) = Len(MaxUint64) /\ DigitsLess(MaxUint64, d)

ParseUintAny(s) == [ok |-> TRUE, value |-> s]
\* strconv.ParseUint(s, 10, 64): the value (its canonical digits), or an
\* error for the empty string, a character that is not a decimal digit (a
\* sign included) and a value that does not fit 64 bits
ParseUint(s) ==
    IF s = <<>> \/ (\E i \in DOMAIN s : ~IsDigit(s[i])) \/ AboveMaxUint64(s)
    THEN [ok |-> FALSE, value |-> <<>>]
    ELSE [ok |-> TRUE, value |-> StripZeros(s)]

\* the message of the handler's own check of its path parameter
\* (transaction_handler.go:48, 96, 173, 216)
ParamError(route) ==
    CASE route = "GetTransactionByHash" -> "transaction hash is required"
      [] route = "GetTransactionByIndex" -> "invalid transaction index"
      [] route = "GetTransactionCount" -> "address is required"
      [] route = "GetTransactionReceipt" -> "transaction hash is required"

\* --------------------------------------------------------------- Init
Init ==
    /\ connCount = 0
    /\ connPool = {}
    /\ healthCheck \in BOOLEAN
    /\ cancelled = FALSE
    /\ pc = [p \in Threads |-> IF p = Monitor THEN "hm_wait" ELSE "idle"]
    /\ op = [p \in Threads |-> "none"]
    /\ conn = [p \in Threads |-> Nil]
    /\ res = [p \in Threads |-> "none"]
    /\ tr = [p \in Threads |-> <<>>]
    /\ hist = NoHist
    /\ addr = [p \in Threads |-> "none"]
    /\ gbpc = "idle"
    /\ addresses = <<>>
    /\ maxAddresses = 0
    /\ gerr = "none"
    /\ result = <<>>
    /\ gbret = NoReturn
    /\ firstErr = "none"
    /\ failedProbe = {}
    /\ numberOrTag = [p \in Threads |-> "none"]
    /\ numOrTag = [p \in Threads |-> NoBlock]
    /\ from = [p \in Threads |-> "none"]
    /\ upstream = [p \in Threads |-> NoBlock]
    /\ gbNumberOrTag = "none"
    /\ gbNumOrTag = NoBlock
    /\ hpc = "idle"
    /\ request = NoRequest
    /\ response = NoResponse
    /\ svcCalls = <<>>

\* the first error to arise in a goroutine of GetBalances, once p's operation
\* has produced the error e
FirstError(p, e) == IF op[p] = "task" /\ firstErr = "none" THEN e ELSE firstErr

\* ------------------------------------------------------- getConnection
getConnection_LoadWaits(p) ==
    /\ pc[p] = "gc_load"
    /\ ~PoolFull(connCount)
    /\ pc' = [pc EXCEPT ![p] = "gc_get"]
    /\ UNCHANGED <<extVars, poolVars, cfgVars, op, conn, res, tr, hist, gbVars>>
\* pool.go:33-35
getConnection_Load(p) ==
    /\ pc[p] = "gc_load"
    /\ IF PoolFull(connCount)
         THEN /\ pc' = [pc EXCEPT ![p] = NextPc(p, "failed", "err_full")]
              /\ res' = [res EXCEPT ![p] = "err_full"]
              /\ firstErr' = FirstError(p, "err_full")
         ELSE /\ pc' = [pc EXCEPT ![p] = "gc_get"]
              /\ UNCHANGED <<res, firstErr>>
    /\ UNCHANGED <<extVars, poolVars, cfgVars, op, conn, tr, hist, gbCallVars>>

\* pool.go:38-41
getConnection_Get(p) ==
    /\ pc[p] = "gc_get"
    /\ \E g \in PoolGet(connPool) :
         /\ connPool' = g.pool
         /\ IF g.c = Nil
              THEN /\ pc' = [pc EXCEPT ![p] = NextPc(p, "failed", "err_nil")]
                   /\ res' = [res EXCEPT ![p] = "err_nil"]
                   /\ firstErr' = FirstError(p, "err_nil")
                   /\ conn' = conn
              ELSE /\ pc' = [pc EXCEPT ![p] = "gc_add"]
                   /\ conn' = [conn EXCEPT ![p] = g.c]
                   /\ UNCHANGED <<res, firstErr>>
         /\ hist' = IF g.c # Nil /\ g.from = "pool" /\ g.c = hist.put
                      THEN [put |-> g.c, got |-> TRUE]
                      ELSE NoHist
    /\ UNCHANGED <<extVars, connCount, cfgVars, op, tr, gbCallVars>>

\* pool.go:44-46
getConnection_Add(p) ==
    /\ pc[p] = "gc_add"
    /\ connCount' = connCount + 1
    /\ tr' = [tr EXCEPT ![p] = Append(@, "acquire")]
    /\ pc' = [pc EXCEPT ![p] = NextPc(p, "acquired", "ok")]
    /\ hist' = NoHist
    /\ UNCHANGED <<extVars, connPool, cfgVars, op, conn, res, gbVars>>

\* --------------------------------------------------- releaseConnection
releaseConnection_DecNoNilCheck(p) ==
    /\ pc[p] = "rc_dec"
    /\ connCount' = connCount - 1
    /\ hist' = NoHist
    /\ pc' = [pc EXCEPT ![p] = "rc_put"]
    /\ UNCHANGED <<extVars, connPool, cfgVars, op, conn, res, tr, gbVars>>
\* pool.go:51-56
releaseConnection_Dec(p) ==
    /\ pc[p] = "rc_dec"
    /\ IF conn[p] = Nil
         THEN /\ pc' = [pc EXCEPT ![p] = NextPc(p, "released", "ok")]
              /\ UNCHANGED <<extVars, connCount, hist>>
         ELSE /\ connCount' = connCount - 1
              /\ hist' = NoHist
              /\ pc' = [pc EXCEPT ![p] = "rc_put"]
    /\ UNCHANGED <<extVars, connPool, cfgVars, op, conn, res, tr, gbVars>>

\* pool.go:59
releaseConnection_Put(p) ==
    /\ pc[p] = "rc_put"
    /\ connPool' = PoolPut(connPool, conn[p])
    /\ hist' = [put |-> conn[p], got |-> FALSE]
    /\ conn' = [conn EXCEPT ![p] = Nil]
    /\ tr' = [tr EXCEPT ![p] = Append(@, "release")]
    /\ pc' = [pc EXCEPT ![p] = NextPc(p, "released", "ok")]
    /\ UNCHANGED <<extVars, connCount, cfgVars, op, res, gbVars>>

\* ------------------------------------------------------ withConnection
\* client.go:78-80: a request goroutine enters withConnection
withConnection_Call(p) ==
    /\ pc[p] = "idle"
    /\ op' = [op EXCEPT ![p] = "with"]
    /\ pc' = [pc EXCEPT ![p] = "gc_load"]
    /\ UNCHANGED <<extVars, poolVars, cfgVars, conn, res, tr, hist, gbVars>>

\* client.go:87: fn(conn) returns a result or an error
withConnection_Fn(p) ==
    /\ pc[p] = "fn"
    /\ \E outcome \in {"ok", "err_fn"} :
         /\ res' = [res EXCEPT ![p] = outcome]
         /\ pc' = [pc EXCEPT ![p] = NextPc(p, "worked", outcome)]
    /\ tr' = [tr EXCEPT ![p] = Append(@, "work")]
    /\ upstream' = [upstream EXCEPT ![p] = numOrTag[p]]
    /\ UNCHANGED <<numberOrTag, numOrTag, from, gbNumberOrTag, gbNumOrTag,
                   httpVars, poolVars, cfgVars, op, conn, hist, gbVars>>

\* ------------------------------------------------- the per-RPC wrappers
\* eth.NewAddress accepts the address
ValidAddress(a) == a # "bad"

\* block.go:99  len(blockHash) < 2 || blockHash[:2] != "0x"
HasHexPrefix(h) == ~(Len(h) < 2 \/ SubSeq(h, 1, 2) # <<"0", "x">>)

\* a wrapper that has checked its parameter: the error, or withConnection
Wrapper_Enter(p, m, a, valid) ==
    /\ pc[p] = "idle"
    /\ op' = [op EXCEPT ![p] = m]
    /\ addr' = [addr EXCEPT ![p] = a]
    /\ IF valid
         THEN /\ pc' = [pc EXCEPT ![p] = "gc_load"]
              /\ tr' = [tr EXCEPT ![p] = <<"call">>]
              /\ res' = res
         ELSE /\ pc' = [pc EXCEPT ![p] = "ret"]
              /\ res' = [res EXCEPT ![p] = "err_invalid"]
              /\ tr' = tr
    /\ UNCHANGED <<extVars, poolVars, cfgVars, conn, hist, gbpc, addresses,
                   maxAddresses, gerr, result, gbret, firstErr>>

\* a wrapper that takes a block reference, once it has checked its address
\* (client.go:166-175): the error, or withConnection with numOrTag
BlockWrapper_Enter(p, m, a, valid, r) ==
    LET n == MustBlockNumberOrTag(getDefaultNumberOrTag(r))
    IN /\ pc[p] = "idle"
       /\ op' = [op EXCEPT ![p] = m]
       /\ addr' = [addr EXCEPT ![p] = a]
       /\ numberOrTag' = [numberOrTag EXCEPT ![p] = r]
       /\ IF ~valid
            THEN /\ pc' = [pc EXCEPT ![p] = "ret"]
                 /\ res' = [res EXCEPT ![p] = "err_invalid"]
                 /\ UNCHANGED <<tr, numOrTag>>
            ELSE /\ numOrTag' = [numOrTag EXCEPT ![p] = n]
                 /\ IF n = NilBlock
                      THEN /\ pc' = [pc EXCEPT ![p] = "ret"]
                           /\ res' = [res EXCEPT ![p] = "err_block"]
                           /\ tr' = tr
                      ELSE /\ pc' = [pc EXCEPT ![p] = "gc_load"]
                           /\ tr' = [tr EXCEPT ![p] = <<"call">>]
                           /\ res' = res
       /\ UNCHANGED <<poolVars, cfgVars, conn, hist, gbpc, addresses,
                      maxAddresses, gerr, result, gbret, firstErr, from,
                      upstream, gbNumberOrTag, gbNumOrTag, httpVars>>

\* client.go:164-185
GetBalance_Call(p) ==
    \E a \in Addrs, r \in Refs :
        BlockWrapper_Enter(p, "GetBalance", a, ValidAddress(a), r)

\* block.go:131-146: GetBlockByNumber has no parameter but the block reference
GetBlockByNumber_Call(p) ==
    \E r \in Refs : BlockWrapper_Enter(p, "GetBlockByNumber", "none", TRUE, r)

\* client.go:457-498: Call(ctx, from, to, ..., numberOrTag)
Call_Call(p) ==
    \E to \in Addrs, f \in Senders, r \in Refs :
        LET n == MustBlockNumberOrTag(getDefaultNumberOrTag(r))
        IN /\ pc[p] = "idle"
           /\ op' = [op EXCEPT ![p] = "Call"]
           /\ addr' = [addr EXCEPT ![p] = to]
           /\ from' = [from EXCEPT ![p] = f]
           /\ numberOrTag' = [numberOrTag EXCEPT ![p] = r]
           /\ IF ~ValidAddress(to) \/ (f # "" /\ ~ValidAddress(f))
                \* 459-462, 466-472
                THEN /\ pc' = [pc EXCEPT ![p] = "ret"]
                     /\ res' = [res EXCEPT ![p] = "err_invalid"]
                     /\ UNCHANGED <<tr, numOrTag>>
                ELSE /\ numOrTag' = [numOrTag EXCEPT ![p] = n]
                     /\ IF n = NilBlock
                          \* 475-478
                          THEN /\ pc' = [pc EXCEPT ![p] = "ret"]
                               /\ res' = [res EXCEPT ![p] = "err_block"]
                               /\ tr' = tr
                          \* 482: From: *fromAddr, with fromAddr still nil
                          ELSE IF f = ""
                          THEN /\ pc' = [pc EXCEPT ![p] = "panic"]
                               /\ UNCHANGED <<tr, res>>
                          \* 491
                          ELSE /\ pc' = [pc EXCEPT ![p] = "gc_load"]
                               /\ tr' = [tr EXCEPT ![p] = <<"call">>]
                               /\ res' = res
           /\ UNCHANGED <<poolVars, cfgVars, conn, hist, gbpc, addresses,
                          maxAddresses, gerr, result, gbret, firstErr,
                          upstream, gbNumberOrTag, gbNumOrTag, httpVars>>

\* block.go:97-112
GetBlockByHash_Call(p) ==
    \E h \in Hashes : Wrapper_Enter(p, "GetBlockByHash", h, HasHexPrefix(h))

\* client.go:326-334 (block.go:42-50): no check of blockHash
GetBlockTransactionCountByHash_Call(p) ==
    \E h \in Hashes :
        Wrapper_Enter(p, "GetBlockTransactionCountByHash", h, TRUE)

\* pool.go:50: releaseConnection is called with a nil connection
releaseConnection_CallNil(p) ==
    /\ pc[p] = "idle"
    /\ op' = [op EXCEPT ![p] = "relnil"]
    /\ pc' = [pc EXCEPT ![p] = "rc_dec"]
    /\ UNCHANGED <<extVars, poolVars, cfgVars, conn, res, tr, hist, gbVars>>

\* ------------------------------------------------------- HTTP handlers
\* gin dispatches a request to a handler of TransactionHandler
Handler_Request ==
    /\ hpc = "idle"
    /\ \E route \in Routes :
         \E param \in IF route = "GetTransactionByIndex" THEN IndexParams
                                                         ELSE Hashes :
             request' = [route |-> route, param |-> param]
    /\ response' = NoResponse
    /\ svcCalls' = <<>>
    /\ hpc' = "handler"
    /\ UNCHANGED <<poolVars, cfgVars, pc, op, conn, res, tr, hist, gbVars,
                   refVars>>

\* a handler whose parameter check passes (ok) or fails: the error response,
\* or the call of the service with arg
Handler_Check(route, ok, arg) ==
    /\ hpc = "handler"
    /\ request.route = route
    /\ IF ok
         THEN /\ hpc' = "service"
              /\ svcCalls' = <<[route |-> route, arg |-> arg,
                                 err |-> "pending"]>>
              /\ response' = response
         ELSE /\ hpc' = "done"
              /\ response' = [status |-> StatusInternalServerError,
                               error |-> ParamError(route)]
              /\ svcCalls' = svcCalls
    /\ UNCHANGED <<poolVars, cfgVars, pc, op, conn, res, tr, hist, gbVars,
                   refVars, request>>

\* transaction_handler.go:43-54
GetTransactionByHash_Handler ==
    Handler_Check("GetTransactionByHash", request.param # <<>>, request.param)

\* transaction_handler.go:83-102
GetTransactionByIndex_Handler ==
    Handler_Check("GetTransactionByIndex", ParseUint(request.param).ok,
                  ParseUint(request.param).value)

\* transaction_handler.go:168-186
GetTransactionCount_Handler ==
    Handler_Check("GetTransactionCount", request.param # <<>>, request.param)

\* transaction_handler.go:211-222
GetTransactionReceipt_Handler ==
    Handler_Check("GetTransactionReceipt", request.param # <<>>,
                  request.param)

\* the service method returns a value or an error
Service_Return ==
    /\ hpc = "service"
    /\ \E e \in {"none", "err_service"} :
         svcCalls' = [svcCalls EXCEPT ![1].err = e]
    /\ hpc' = "respond"
    /\ UNCHANGED <<poolVars, cfgVars, pc, op, conn, res, tr, hist, gbVars,
                   refVars, request, response>>

\* transaction_handler.go:55-65: err.Error() with status 500, or status 200
Handler_Respond ==
    /\ hpc = "respond"
    /\ response' = IF svcCalls[1].err # "none"
                     THEN [status |-> StatusInternalServerError,
                           error |-> svcCalls[1].err]
                     ELSE [status |-> StatusOK, error |-> "none"]
    /\ hpc' = "done"
    /\ UNCHANGED <<poolVars, cfgVars, pc, op, conn, res, tr, hist, gbVars,
                   refVars, request, svcCalls>>

\* the handler returns and the server waits for the next request
Handler_Return ==
    /\ hpc = "done"
    /\ hpc' = "idle"
    /\ UNCHANGED <<poolVars, cfgVars, pc, op, conn, res, tr, hist, gbVars,
                   refVars, request, response, svcCalls>>

\* --------------------------------------------------------- GetBalances
\* the balance the node reports for an address
UpstreamBalance(a) == IF a = "a1" THEN 1 ELSE 2

\* client.go:214-217
EffectiveMaxAddr(m) == IF m > 0 THEN m ELSE DefaultMaxAddr

\* the address lists and maxAddresses arguments GetBalances is called with
AddrLists == UNION {[1..n -> Addrs] : n \in 0..NumGoroutines}
BatchInputs == AddrLists \X {0, 1}

Idle == {p \in Workers : pc[p] = "idle"}
Spawned == {p \in Workers : op[p] = "task"}

\* the goroutine that the i-th iteration of the loop of client.go:237 starts
RECURSIVE NthIdle(_, _)
NthIdle(S, i) ==
    LET m == CHOOSE x \in S : \A y \in S : x <= y
    IN IF i = 1 THEN m ELSE NthIdle(S \ {m}, i - 1)

GetBalances_CheckNoEmpty(as, m) ==
    IF Len(as) > EffectiveMaxAddr(m) THEN "err_toomany" ELSE "ok"
GetBalances_CheckAtLimit(as, m) ==
    IF Len(as) = 0 THEN "err_empty"
    ELSE IF Len(as) >= EffectiveMaxAddr(m) THEN "err_toomany"
    ELSE "ok"
\* client.go:209-221: the argument checks of GetBalances
GetBalances_Check(as, m) ==
    IF Len(as) = 0 THEN "err_empty"
    ELSE IF Len(as) > EffectiveMaxAddr(m) THEN "err_toomany"
    ELSE "ok"

\* client.go:207: a request calls GetBalances(ctx, addresses, numberOrTag,
\* maxAddresses) with arguments of ins and a block reference of refs
GetBalances_Enter(ins, refs) ==
    /\ gbpc = "idle"
    /\ \E in \in ins :
         /\ addresses' = in[1]
         /\ maxAddresses' = in[2]
    /\ \E r \in refs : gbNumberOrTag' = r
    /\ gbpc' = "called"
    /\ UNCHANGED <<poolVars, cfgVars, pc, op, conn, res, tr, hist, addr, gerr,
                   result, gbret, firstErr, numberOrTag, numOrTag, from,
                   upstream, gbNumOrTag, httpVars>>

\* the batch requests of the pool's specifications ask for the latest block
GetBalances_Call == GetBalances_Enter(BatchInputs, {"latest"})

\* batches of one address with the default limit
SingleInputs == {in \in BatchInputs : Len(in[1]) = 1 /\ in[2] = 0}

\* client.go:209-227: GetBalances runs its argument checks
GetBalances_Validate ==
    /\ gbpc = "called"
    /\ IF GetBalances_Check(addresses, maxAddresses) # "ok"
         THEN /\ gbret' = ReturnErr(GetBalances_Check(addresses, maxAddresses))
              /\ gbpc' = "ret"
              /\ gbNumOrTag' = gbNumOrTag
         ELSE LET n == MustBlockNumberOrTag(
                           getDefaultNumberOrTag(gbNumberOrTag))
              IN /\ gbNumOrTag' = n
                 /\ IF n = NilBlock
                      THEN /\ gbret' = ReturnErr("err_block")
                           /\ gbpc' = "ret"
                      ELSE /\ gbret' = gbret
                           /\ gbpc' = "accepted"
    /\ UNCHANGED <<poolVars, cfgVars, pc, op, conn, res, tr, hist, addr,
                   addresses, maxAddresses, gerr, result, firstErr,
                   numberOrTag, numOrTag, from, upstream, gbNumberOrTag,
                   httpVars>>

\* client.go:229-265: the loop starts one goroutine per address
GetBalances_Spawn ==
    /\ gbpc = "accepted"
    /\ Len(addresses) <= Cardinality(Idle)
    /\ gbpc' = "wait"
    /\ LET g == [i \in 1..Len(addresses) |-> NthIdle(Idle, i)]
           G == {g[i] : i \in 1..Len(addresses)}
           ix(p) == CHOOSE i \in 1..Len(addresses) : g[i] = p
       IN /\ pc' = [p \in Threads |-> IF p \in G THEN "gc_load" ELSE pc[p]]
          /\ op' = [p \in Threads |-> IF p \in G THEN "task" ELSE op[p]]
          /\ addr' = [p \in Threads |->
                        IF p \in G THEN addresses[ix(p)] ELSE addr[p]]
    /\ UNCHANGED <<extVars, poolVars, cfgVars, conn, res, tr, hist, addresses,
                   maxAddresses, gerr, result, gbret, firstErr>>

\* client.go:247-257: eth.NewAddress(addr), then conn.GetBalance
GetBalances_TaskBody(t) ==
    /\ pc[t] = "t_body"
    /\ IF ~ValidAddress(addr[t])
         THEN /\ res' = [res EXCEPT ![t] = "err_invalid"]
              /\ firstErr' = FirstError(t, "err_invalid")
              /\ pc' = [pc EXCEPT ![t] = NextPc(t, "worked", "err_invalid")]
              /\ upstream' = upstream
         ELSE \E outcome \in {"ok", "err_rpc"} :
              /\ res' = [res EXCEPT ![t] = outcome]
              /\ firstErr' = IF outcome = "ok" THEN firstErr
                                              ELSE FirstError(t, outcome)
              /\ pc' = [pc EXCEPT ![t] = NextPc(t, "worked", outcome)]
              /\ upstream' = [upstream EXCEPT ![t] = gbNumOrTag]
    /\ tr' = [tr EXCEPT ![t] = Append(@, "work")]
    /\ UNCHANGED <<poolVars, cfgVars, op, conn, hist, gbCallVars, numberOrTag,
                   numOrTag, from, gbNumberOrTag, gbNumOrTag, httpVars>>

MapStoreLost(m, k, v) == [a \in {k} |-> v]
\* client.go:261: result[addr] = balance
MapStore(m, k, v) == [a \in (DOMAIN m) \cup {k} |-> IF a = k THEN v ELSE m[a]]

\* client.go:260-263: mu.Lock(); result[addr] = balance; mu.Unlock()
GetBalances_TaskStore(t) ==
    /\ pc[t] = "t_store"
    /\ result' = MapStore(result, addr[t], UpstreamBalance(addr[t]))
    /\ pc' = [pc EXCEPT ![t] = NextPc(t, "stored", "ok")]
    /\ UNCHANGED <<extVars, poolVars, cfgVars, op, conn, res, tr, hist, addr, gbpc,
                   addresses, maxAddresses, gerr, gbret, firstErr>>

errOnceLast(old, e) == e
\* errgroup.Group.Go: g.errOnce.Do(func() { g.err = err })
errOnce(old, e) == IF old = "none" THEN e ELSE old

\* errgroup.Group.Go: the goroutine ends; errOnce keeps the first error
GetBalances_TaskExit(t) ==
    /\ pc[t] = "t_exit"
    /\ gerr' = IF res[t] # "ok" THEN errOnce(gerr, res[t]) ELSE gerr
    /\ pc' = [pc EXCEPT ![t] = "done"]
    /\ UNCHANGED <<extVars, poolVars, cfgVars, op, conn, res, tr, hist, addr, gbpc,
                   addresses, maxAddresses, result, gbret, firstErr>>

JoinedOnFirstError == gerr # "none" \/ \A t \in Spawned : pc[t] = "done"
\* errgroup.Group.Wait: g.wg.Wait()
Joined == \A t \in Spawned : pc[t] = "done"

GetBalances_ReturnPartial(e, m) == [isnil |-> FALSE, m |-> m, err |-> e]
\* client.go:268-273
GetBalances_Return(e, m) == IF e # "none" THEN ReturnErr(e) ELSE ReturnMap(m)

\* client.go:268-272: g.Wait() returns once every goroutine has ended
GetBalances_Wait ==
    /\ gbpc = "wait"
    /\ Joined
    /\ gbret' = GetBalances_Return(gerr, result)
    /\ gbpc' = "ret"
    /\ UNCHANGED <<extVars, poolVars, cfgVars, pc, op, conn, res, tr, hist, addr,
                   addresses, maxAddresses, gerr, result, firstErr>>

\* ---------------------------------------- managePool / checkConnections
managePool_TickAlways ==
    /\ pc[Monitor] = "hm_wait"
    /\ pc' = [pc EXCEPT ![Monitor] = "gc_load"]
    /\ op' = [op EXCEPT ![Monitor] = "check"]
    /\ tr' = [tr EXCEPT ![Monitor] = <<>>]
    /\ res' = [res EXCEPT ![Monitor] = "none"]
    /\ UNCHANGED <<extVars, poolVars, cfgVars, conn, hist, gbVars>>
\* pool.go:21-25: the ticker fires
managePool_Tick ==
    /\ pc[Monitor] = "hm_wait"
    /\ IF healthCheck
         THEN /\ pc' = [pc EXCEPT ![Monitor] = "gc_load"]
              /\ op' = [op EXCEPT ![Monitor] = "check"]
              /\ tr' = [tr EXCEPT ![Monitor] = <<>>]
              /\ res' = [res EXCEPT ![Monitor] = "none"]
         ELSE UNCHANGED <<pc, op, tr, res>>
    /\ UNCHANGED <<extVars, poolVars, cfgVars, conn, hist, gbVars>>

managePool_DoneContinues ==
    /\ pc[Monitor] = "hm_wait"
    /\ cancelled
    /\ UNCHANGED vars
\* pool.go:19-20: ctx.Done() is selected
managePool_Done ==
    /\ pc[Monitor] = "hm_wait"
    /\ cancelled
    /\ pc' = [pc EXCEPT ![Monitor] = "stopped"]
    /\ UNCHANGED <<extVars, poolVars, cfgVars, op, conn, res, tr, hist, gbVars>>

\* pool.go:72-73: conn.BlockNumber(ctx) returns
checkConnections_Probe ==
    /\ pc[Monitor] = "hc_probe"
    /\ \E outcome \in {"ok", "err_probe"} :
         /\ pc' = [pc EXCEPT ![Monitor] = NextPc(Monitor, "worked", outcome)]
         /\ failedProbe' = IF outcome = "ok"
                             THEN failedProbe \ {conn[Monitor]}
                             ELSE failedProbe \cup {conn[Monitor]}
    /\ tr' = [tr EXCEPT ![Monitor] = Append(@, "work")]
    /\ UNCHANGED <<extVars, poolVars, healthCheck, cancelled, op, conn, res, hist,
                   gbVars>>

checkConnections_ReplaceCounts ==
    /\ pc[Monitor] = "hc_replace"
    /\ \E n \in NewClientOutcomes :
         /\ connPool' = IF n = Nil THEN connPool ELSE PoolPut(connPool, n)
         /\ connCount' = IF n = Nil THEN connCount ELSE connCount + 1
         /\ tr' = [tr EXCEPT ![Monitor] =
                      Append(@, IF n = Nil THEN "noreplace" ELSE "replace")]
    /\ hist' = NoHist
    /\ pc' = [pc EXCEPT ![Monitor] = NextPc(Monitor, "replaced", "ok")]
    /\ UNCHANGED <<extVars, cfgVars, op, conn, res, gbVars>>
checkConnections_ReplacePutsNil ==
    /\ pc[Monitor] = "hc_replace"
    /\ \E n \in NewClientOutcomes :
         /\ connPool' = PoolPut(connPool, n)
         /\ tr' = [tr EXCEPT ![Monitor] =
                      Append(@, IF n = Nil THEN "noreplace" ELSE "replace")]
    /\ hist' = NoHist
    /\ pc' = [pc EXCEPT ![Monitor] = NextPc(Monitor, "replaced", "ok")]
    /\ UNCHANGED <<extVars, connCount, cfgVars, op, conn, res, gbVars>>
\* pool.go:75-78: node.NewClient and, when it succeeds, connPool.Put(newConn)
checkConnections_Replace ==
    /\ pc[Monitor] = "hc_replace"
    /\ \E n \in NewClientOutcomes :
         /\ connPool' = IF n = Nil THEN connPool ELSE PoolPut(connPool, n)
         /\ tr' = [tr EXCEPT ![Monitor] =
                      Append(@, IF n = Nil THEN "noreplace" ELSE "replace")]
    /\ hist' = NoHist
    /\ pc' = [pc EXCEPT ![Monitor] = NextPc(Monitor, "replaced", "ok")]
    /\ UNCHANGED <<extVars, connCount, cfgVars, op, conn, res, gbVars>>

\* the context given to NewClient is cancelled
Cancel ==
    /\ ~cancelled
    /\ cancelled' = TRUE
    /\ UNCHANGED <<extVars, poolVars, healthCheck, failedProbe, pc, op, conn, res, tr,
                   hist, gbVars>>

\* sync.Pool drops a pooled object (a garbage collection clears the pool)
PoolGC ==
    /\ \E x \in connPool :
         /\ connPool' = connPool \ {x}
         /\ failedProbe' = failedProbe \ {x}
    /\ hist' = NoHist
    /\ UNCHANGED <<extVars, connCount, healthCheck, cancelled, pc, op, conn, res, tr,
                   gbVars>>

\* --------------------------------------------------------------- Next
Next ==
    \/ \E p \in Threads : getConnection_Load(p)
    \/ \E p \in Threads : getConnection_Get(p)
    \/ \E p \in Threads : getConnection_Add(p)
    \/ \E p \in Threads : releaseConnection_Dec(p)
    \/ \E p \in Threads : releaseConnection_Put(p)
    \/ \E p \in Workers : withConnection_Call(p)
    \/ \E p \in Workers : withConnection_Fn(p)
    \/ \E p \in Workers : releaseConnection_CallNil(p)
    \/ GetBalances_Call
    \/ GetBalances_Validate
    \/ GetBalances_Spawn
    \/ \E t \in Workers : GetBalances_TaskBody(t)
    \/ \E t \in Workers : GetBalances_TaskStore(t)
    \/ \E t \in Workers : GetBalances_TaskExit(t)
    \/ GetBalances_Wait
    \/ managePool_Tick
    \/ managePool_Done
    \/ checkConnections_Probe
    \/ checkConnections_Replace
    \/ Cancel
    \/ PoolGC

Spec == Init /\ [][Next]_vars

\* The pool with its direct users only: request goroutines that run
\* withConnection (or hand nil to releaseConnection) and the pool manager.
NextPool ==
    \/ \E p \in Threads : getConnection_Load(p)
    \/ \E p \in Threads : getConnection_Get(p)
    \/ \E p \in Threads : getConnection_Add(p)
    \/ \E p \in Threads : releaseConnection_Dec(p)
    \/ \E p \in Threads : releaseConnection_Put(p)
    \/ \E p \in Workers : withConnection_Call(p)
    \/ \E p \in Workers : withConnection_Fn(p)
    \/ \E p \in Workers : releaseConnection_CallNil(p)
    \/ managePool_Tick
    \/ checkConnections_Probe
    \/ checkConnections_Replace
    \/ PoolGC

SpecPool == Init /\ [][NextPool]_vars

\* The pool manager from NewClient to the cancellation of its context, with
\* request goroutines that run withConnection.
NextStop ==
    \/ \E p \in Threads : getConnection_Load(p)
    \/ \E p \in Threads : getConnection_Get(p)
    \/ \E p \in Threads : getConnection_Add(p)
    \/ \E p \in Threads : releaseConnection_Dec(p)
    \/ \E p \in Threads : releaseConnection_Put(p)
    \/ \E p \in Workers : withConnection_Call(p)
    \/ \E p \in Workers : withConnection_Fn(p)
    \/ managePool_Tick
    \/ managePool_Done
    \/ checkConnections_Probe
    \/ checkConnections_Replace
    \/ Cancel
    \/ PoolGC

\* a step of the goroutine that runs managePool, inside checkConnections
checkConnections_Step ==
    \/ getConnection_Load(Monitor)
    \/ getConnection_Get(Monitor)
    \/ getConnection_Add(Monitor)
    \/ checkConnections_Probe
    \/ checkConnections_Replace
    \/ releaseConnection_Dec(Monitor)
    \/ releaseConnection_Put(Monitor)

\* The goroutine of managePool is scheduled (every call it makes returns),
\* and a select that finds ctx.Done() ready again and again takes that case.
SpecStop ==
    /\ Init
    /\ [][NextStop]_vars
    /\ WF_vars(checkConnections_Step)
    /\ SF_vars(managePool_Done)

\* One GetBalances call next to the pool manager's health checks.
NextMix ==
    \/ \E p \in Threads : getConnection_Load(p)
    \/ \E p \in Threads : getConnection_Get(p)
    \/ \E p \in Threads : getConnection_Add(p)
    \/ \E p \in Threads : releaseConnection_Dec(p)
    \/ \E p \in Threads : releaseConnection_Put(p)
    \/ GetBalances_Call
    \/ GetBalances_Validate
    \/ GetBalances_Spawn
    \/ \E t \in Workers : GetBalances_TaskBody(t)
    \/ \E t \in Workers : GetBalances_TaskStore(t)
    \/ \E t \in Workers : GetBalances_TaskExit(t)
    \/ GetBalances_Wait
    \/ managePool_Tick
    \/ checkConnections_Probe
    \/ checkConnections_Replace
    \/ PoolGC

SpecMix == Init /\ [][NextMix]_vars

\* Request goroutines that each call one per-RPC wrapper.
NextRPC ==
    \/ \E p \in Workers : GetBalance_Call(p)
    \/ \E p \in Workers : GetBlockByHash_Call(p)
    \/ \E p \in Workers : GetBlockTransactionCountByHash_Call(p)
    \/ \E p \in Workers : getConnection_Load(p)
    \/ \E p \in Workers : getConnection_Get(p)
    \/ \E p \in Workers : getConnection_Add(p)
    \/ \E p \in Workers : withConnection_Fn(p)
    \/ \E p \in Workers : releaseConnection_Dec(p)
    \/ \E p \in Workers : releaseConnection_Put(p)
    \/ PoolGC

SpecRPC == Init /\ [][NextRPC]_vars

\* The HTTP handlers of the transaction routes, over their path parameters.
NextHTTP ==
    \/ Handler_Request
    \/ GetTransactionByHash_Handler
    \/ GetTransactionByIndex_Handler
    \/ GetTransactionCount_Handler
    \/ GetTransactionReceipt_Handler
    \/ Service_Return
    \/ Handler_Respond
    \/ Handler_Return

SpecHTTP == Init /\ [][NextHTTP]_vars

\* the request goroutine that calls the single-address wrappers and Call
Caller == {p \in Workers : \A q \in Workers : p <= q}

\* The wrappers that take a block reference, from the call to the node: one
\* goroutine calls the single-address ones or Call, next to a GetBalances of
\* one address and its goroutine.
NextRef ==
    \/ \E p \in Caller : GetBalance_Call(p)
    \/ \E p \in Caller : GetBlockByNumber_Call(p)
    \/ \E p \in Caller : Call_Call(p)
    \/ \E p \in Workers : getConnection_Load(p)
    \/ \E p \in Workers : getConnection_Get(p)
    \/ \E p \in Workers : getConnection_Add(p)
    \/ \E p \in Workers : withConnection_Fn(p)
    \/ \E p \in Workers : releaseConnection_Dec(p)
    \/ \E p \in Workers : releaseConnection_Put(p)
    \/ GetBalances_Enter(SingleInputs, Refs)
    \/ GetBalances_Validate
    \/ GetBalances_Spawn
    \/ \E t \in Workers : GetBalances_TaskBody(t)
    \/ \E t \in Workers : GetBalances_TaskStore(t)
    \/ \E t \in Workers : GetBalances_TaskExit(t)
    \/ GetBalances_Wait

SpecRef == Init /\ [][NextRef]_vars

\* One GetBalances call and its goroutines, alone on the pool.
NextBatch ==
    \/ \E p \in Workers : getConnection_Load(p)
    \/ \E p \in Workers : getConnection_Get(p)
    \/ \E p \in Workers : getConnection_Add(p)
    \/ \E p \in Workers : releaseConnection_Dec(p)
    \/ \E p \in Workers : releaseConnection_Put(p)
    \/ GetBalances_Call
    \/ GetBalances_Validate
    \/ GetBalances_Spawn
    \/ \E t \in Workers : GetBalances_TaskBody(t)
    \/ \E t \in Workers : GetBalances_TaskStore(t)
    \/ \E t \in Workers : GetBalances_TaskExit(t)
    \/ GetBalances_Wait
    \/ PoolGC

SpecBatch == Init /\ [][NextBatch]_vars

\* The argument checks of GetBalances as a function of its arguments: every
\* list length up to MaxListLen against every maxAddresses from -1 (a
\* non-positive value) and 0 (omitted) up to MaxArg.
InitLimit ==
    /\ connCount = 0
    /\ connPool = {}
    /\ healthCheck \in BOOLEAN
    /\ cancelled = FALSE
    /\ pc = [p \in Threads |-> IF p = Monitor THEN "hm_wait" ELSE "idle"]
    /\ op = [p \in Threads |-> "none"]
    /\ conn = [p \in Threads |-> Nil]
    /\ res = [p \in Threads |-> "none"]
    /\ tr = [p \in Threads |-> <<>>]
    /\ hist = NoHist
    /\ addr = [p \in Threads |-> "none"]
    /\ gbpc = "called"
    /\ addresses \in {[i \in 1..n |-> "a1"] : n \in 0..MaxListLen}
    /\ maxAddresses \in (-1)..MaxArg
    /\ gerr = "none"
    /\ result = <<>>
    /\ gbret = NoReturn
    /\ firstErr = "none"
    /\ failedProbe = {}
    /\ numberOrTag = [p \in Threads |-> "none"]
    /\ numOrTag = [p \in Threads |-> NoBlock]
    /\ from = [p \in Threads |-> "none"]
    /\ upstream = [p \in Threads |-> NoBlock]
    /\ gbNumberOrTag = "latest"
    /\ gbNumOrTag = NoBlock
    /\ hpc = "idle"
    /\ request = NoRequest
    /\ response = NoResponse
    /\ svcCalls = <<>>

\* The call of InitLimit goes on as any other.
NextLimit ==
    \/ GetBalances_Validate
    \/ GetBalances_Spawn
    \/ \E p \in Workers : getConnection_Load(p)
    \/ \E p \in Workers : getConnection_Get(p)
    \/ \E p \in Workers : getConnection_Add(p)
    \/ \E p \in Workers : releaseConnection_Dec(p)
    \/ \E p \in Workers : releaseConnection_Put(p)
    \/ \E t \in Workers : GetBalances_TaskBody(t)
    \/ \E t \in Workers : GetBalances_TaskStore(t)
    \/ \E t \in Workers : GetBalances_TaskExit(t)
    \/ GetBalances_Wait
    \/ PoolGC

SpecLimit == InitLimit /\ [][NextLimit]_vars

TypeOK ==
    /\ connCount \in Int
    /\ connPool \subseteq ConnIds
    /\ \A p \in Threads : conn[p] \in ConnIds \cup {Nil}

\* ------------------------------------------------------------- claims
IsPrefix(s, t) == Len(s) <= Len(t) /\ SubSeq(t, 1, Len(s)) = s
Events(p) == {tr[p][i] : i \in 1..Len(tr[p])}
WithTrace == <<"acquire", "work", "release">>
\* the goroutines to which getConnection has returned a connection that they
\* have not put back yet
InUse == {p \in Holders : "acquire" \in Events(p)}

\* C1: the number of connections checked out, and the connCount counter,
\* never exceed maxConns, whatever the interleaving of acquires and releases.
\* (Stated as claimed; getConnection's load and add are separate steps, so two
\* goroutines that both load 0 both pass the check.)
C1_CheckedOutWithinMax ==
    /\ connCount <= maxConns
    /\ Cardinality(InUse) <= maxConns

\* C2: when maxConns + k withConnection calls acquire concurrently on a pool
\* with nothing checked out, the pool manager is off, the factory works and
\* none of them has released, exactly maxConns of them hold a connection and
\* exactly k have failed with the pool-full error.  (Stated as claimed.)
C2_BurstExactlyMax ==
    (/\ ~healthCheck
     /\ gbpc = "idle"
     /\ \A w \in Workers :
          /\ op[w] = "with"
          /\ pc[w] = "fn" \/ (pc[w] = "ret" /\ res[w] = "err_full"))
    => /\ Cardinality({w \in Workers : pc[w] = "fn"}) = maxConns
       /\ Cardinality({w \in Workers : res[w] = "err_full"})
            = NumGoroutines - maxConns

\* C3: an acquire that starts when connCount equals maxConns returns the
\* pool-full error in that very step: it gets no connection, does not go on
\* to the pool, and leaves connCount and the idle set as they were.
C3_FullAcquireFailsAtOnce ==
    [][\A p \in Threads :
         (pc[p] = "gc_load" /\ connCount = maxConns /\ pc'[p] # pc[p])
         => /\ res'[p] = "err_full"
            /\ conn'[p] = Nil
            /\ pc'[p] \in {"ret", "hm_wait", "t_exit"}
            /\ connCount' = connCount
            /\ connPool' = connPool]_vars

\* C3 witness: one caller holds the only allowed connection and another
\* caller's acquire has returned the pool-full error.
C3_Witness ==
    \E p, q \in Workers :
        /\ pc[p] = "ret" /\ op[p] = "with" /\ res[p] = "err_full"
        /\ pc[q] = "fn" /\ connCount = maxConns

\* C4: a connection is never held by two goroutines at once, and a connection
\* that a goroutine holds is never in the idle set at the same time.
C4_ExclusiveOwnership ==
    /\ \A p, q \in Threads : (p # q /\ conn[p] # Nil) => conn[p] # conn[q]
    /\ \A p \in Threads : conn[p] # Nil => conn[p] \notin connPool

\* C4 witness: the pool manager still holds the connection whose probe failed
\* and has put a replacement, while a GetBalances goroutine holds another
\* connection.
C4_Witness ==
    /\ pc[Monitor] = "rc_dec"
    /\ "replace" \in Events(Monitor)
    /\ \E t \in Workers : op[t] = "task" /\ conn[t] # Nil

\* C5: at every step connCount equals the number of connections that have
\* been taken from the pool (or created) and not yet put back.  (Stated as
\* claimed; Get and the add, and the subtract and Put, are separate steps.)
C5_CounterMatchesCheckedOut == connCount = Cardinality(Holders)

\* C6: a withConnection call whose acquire succeeded has released its
\* connection exactly once when it returns, whether fn returned a result or an
\* error; and when no operation is in progress connCount is back at its
\* value before the calls (0) with no connection checked out.
C6_ReleasedExactlyOnce ==
    /\ \A p \in Workers :
         (op[p] = "with" /\ pc[p] = "ret" /\ res[p] \in {"ok", "err_fn"})
         => (tr[p] = WithTrace /\ conn[p] = Nil)
    /\ (\A p \in Threads : pc[p] \in {"idle", "ret", "hm_wait"})
         => (connCount = 0 /\ Holders = {})

\* C6 witness: one withConnection call has returned fn's result and another
\* one fn's error.
C6_Witness ==
    \E p, q \in Workers :
        /\ op[p] = "with" /\ pc[p] = "ret" /\ res[p] = "ok"
        /\ op[q] = "with" /\ pc[q] = "ret" /\ res[q] = "err_fn"

\* C7: within one withConnection call acquire, work and release happen in
\* that order: nothing has happened before the acquire completes, fn runs
\* only after it and on a connection that is held and not idle, and the
\* release starts only after fn has returned.
C7_AcquireWorkRelease ==
    \A p \in Workers :
        op[p] = "with" =>
          /\ IsPrefix(tr[p], WithTrace)
          /\ pc[p] \in {"gc_load", "gc_get", "gc_add"} => tr[p] = <<>>
          /\ pc[p] = "fn" =>
               (tr[p] = <<"acquire">> /\ conn[p] # Nil
                /\ conn[p] \notin connPool)
          /\ pc[p] \in {"rc_dec", "rc_put"} => tr[p] = <<"acquire", "work">>

\* C7 witness: fn is running on a held connection while another connection
\* sits idle in the pool.
C7_Witness ==
    \E p \in Workers : op[p] = "with" /\ pc[p] = "fn" /\ connPool # {}

\* C8: when getConnection fails inside withConnection (pool full, or the
\* factory fails), withConnection returns the error in that step: fn has not
\* run, nothing is released, and connCount and the idle set are unchanged.
C8_FailedAcquireTouchesNothing ==
    [][\A p \in Workers :
         (/\ op[p] = "with"
          /\ pc[p] \in {"gc_load", "gc_get"}
          /\ pc'[p] \notin {"gc_load", "gc_get", "gc_add"})
         => /\ pc'[p] = "ret"
            /\ res'[p] \in {"err_full", "err_nil"}
            /\ tr'[p] = <<>>
            /\ conn'[p] = Nil
            /\ connCount' = connCount
            /\ connPool' = connPool]_vars

\* C8 witness: a withConnection call has returned because the factory failed
\* while another connection was checked out.
C8_Witness ==
    \E p \in Workers :
        /\ op[p] = "with" /\ pc[p] = "ret" /\ res[p] = "err_nil"
        /\ tr[p] = <<>> /\ Holders # {}

\* C9: releaseConnection(nil) returns at once and changes neither connCount
\* nor the idle set, in whatever state it is called.
C9_ReleaseNilIsNoOp ==
    [][\A p \in Threads :
         (pc[p] = "rc_dec" /\ conn[p] = Nil /\ pc'[p] # pc[p])
         => /\ pc'[p] = "ret"
            /\ conn'[p] = Nil
            /\ res'[p] = res[p]
            /\ connCount' = connCount
            /\ connPool' = connPool]_vars

\* C9 witness: releaseConnection(nil) has returned while a connection is
\* checked out and counted.
C9_Witness ==
    \E p \in Workers :
        /\ op[p] = "relnil" /\ pc[p] = "ret"
        /\ Holders # {} /\ connCount > 0

\* C10: releasing a checked-out connection c lowers connCount by one and then
\* puts c into the idle set, where the next Get can return that same c.
C10_ReleaseMakesReusable ==
    [][\A p \in Threads :
         /\ (pc[p] = "rc_dec" /\ conn[p] # Nil /\ pc'[p] # pc[p])
            => (connCount' = connCount - 1 /\ pc'[p] = "rc_put")
         /\ (pc[p] = "rc_put" /\ pc'[p] # pc[p])
            => /\ conn[p] \in connPool'
               /\ conn'[p] = Nil
               /\ \E g \in PoolGet(connPool') :
                    g.c = conn[p] /\ g.from = "pool"]_vars

\* C10 witness: the acquire that follows a release, with no pool activity in
\* between, got the very connection that was released.
C10_Witness ==
    /\ hist.got
    /\ \E p \in Threads : pc[p] = "gc_add" /\ conn[p] = hist.put

\* ------------------------------------------------- claims on GetBalances
Failures == {"err_full", "err_nil", "err_invalid", "err_rpc"}
AddressSet == {addresses[i] : i \in 1..Len(addresses)}

\* C11: GetBalances never returns a partial result: when any of its goroutines
\* failed (acquire, address or upstream) it returns an error and a nil map,
\* also when other goroutines stored balances; a non-nil map comes with no
\* error and only when every goroutine succeeded.
C11_NoPartialResult ==
    gbpc = "ret" =>
      /\ (\E t \in Spawned : res[t] \in Failures)
           => (gbret.err # "none" /\ gbret.isnil /\ gbret.m = <<>>)
      /\ ~gbret.isnil
           => (gbret.err = "none" /\ \A t \in Spawned : res[t] = "ok")

\* C11 witness: GetBalances returned an error and a nil map although a
\* goroutine had stored its balance in the result map.
C11_Witness ==
    /\ gbpc = "ret"
    /\ gbret.isnil /\ gbret.err \in Failures
    /\ DOMAIN result # {}

\* C12 as claimed: the error GetBalances returns is the error that arose first
\* in time in any of its goroutines.
C12_FirstFailureInTimeWins ==
    (gbpc = "ret" /\ Spawned # {} /\ gbret.err # "none")
    => gbret.err = firstErr

\* C12 as amended: the error GetBalances returns is the one that was handed to
\* the errgroup first, by the first failing goroutine to end (after its
\* deferred release); an error handed over later never replaces it, and
\* Wait returns it.
C12_FirstRecordedErrorWins ==
    [][/\ gerr # "none" => gerr' = gerr
       /\ \A t \in Workers :
            (pc[t] = "t_exit" /\ pc'[t] = "done" /\ gerr = "none")
            => gerr' = (IF res[t] \in Failures THEN res[t] ELSE "none")
       /\ (gbpc = "wait" /\ gbpc' = "ret" /\ gerr # "none")
            => gbret'.err = gerr]_vars

\* C12 witness: two goroutines failed with different errors and GetBalances
\* returned the one recorded first, which is not the one that arose first.
C12_Witness ==
    /\ gbpc = "ret"
    /\ \E t, u \in Spawned :
         /\ res[t] \in Failures /\ res[u] \in Failures /\ res[t] # res[u]
         /\ gbret.err = res[u] /\ firstErr = res[t]

\* C13: when GetBalances has returned, every goroutine it started has ended,
\* also after a first error: none holds a connection, each one that acquired
\* has released, and connCount (the batch being alone on the pool) is 0.
C13_ReturnsAfterAllTasks ==
    gbpc = "ret" =>
      /\ \A t \in Spawned :
           /\ pc[t] = "done"
           /\ conn[t] = Nil
           /\ "acquire" \in Events(t) => "release" \in Events(t)
      /\ connCount = 0
      /\ Holders = {}

\* C13 witness: GetBalances returned an error, and a goroutine that did not
\* fail had run to its end and released its connection.
C13_Witness ==
    /\ gbpc = "ret" /\ gbret.err \in Failures
    /\ \E t, u \in Spawned :
         /\ res[t] \in Failures
         /\ res[u] = "ok" /\ "release" \in Events(u)

\* C14: on success the returned map has exactly the distinct input addresses
\* as keys, each with the balance the node reports for it; a repeated address
\* gives one entry and no goroutine's entry is lost.
C14_MapOfDistinctAddresses ==
    (gbpc = "ret" /\ ~gbret.isnil) =>
      /\ DOMAIN gbret.m = AddressSet
      /\ \A a \in AddressSet : gbret.m[a] = UpstreamBalance(a)

\* C14 witness: a successful call for two different addresses.
C14_Witness ==
    /\ gbpc = "ret" /\ ~gbret.isnil
    /\ Len(addresses) = 2 /\ addresses[1] # addresses[2]

\* C15: GetBalances with an empty list returns the empty-input error in its
\* argument checks: no goroutine is started, no connection is acquired, no
\* upstream call is made, and connCount and the idle set stay as they are.
C15_EmptyListFailsFirst ==
    [][(gbpc = "called" /\ Len(addresses) = 0 /\ gbpc' # gbpc)
       => /\ gbpc' = "ret"
          /\ gbret' = ReturnErr("err_empty")
          /\ UNCHANGED <<pc, op, conn, tr, connCount, connPool>>
          /\ Spawned = {}]_vars

\* C15 witness: a call with the empty list has returned the empty-input error.
C15_Witness ==
    /\ gbpc = "ret" /\ addresses = <<>>
    /\ gbret.err = "err_empty" /\ gbret.isnil

\* C16: GetBalances returns the too-many-addresses error exactly when the
\* list is longer than maxAddresses, taken as 5 when omitted or not positive;
\* it then has started no goroutine and acquired no connection; a list of
\* exactly maxAddresses addresses passes the checks.
C16_TooManyExactlyAboveLimit ==
    LET limit == IF maxAddresses > 0 THEN maxAddresses ELSE 5
    IN gbpc # "called" =>
         /\ (gbret.err = "err_toomany") <=> (Len(addresses) > limit)
         /\ gbret.err = "err_toomany"
              => (gbpc = "ret" /\ Spawned = {} /\ Holders = {}
                  /\ connCount = 0 /\ connPool = {})
         /\ (Len(addresses) > 0 /\ Len(addresses) <= limit)
              => gbpc \in {"accepted", "wait", "ret"} /\ gbret.err # "err_empty"

\* C16 witness: a list of five addresses with maxAddresses omitted has passed
\* the checks.
C16_Witness ==
    /\ gbpc = "accepted"
    /\ Len(addresses) = 5 /\ maxAddresses = 0

\* C17 as claimed: no connection is acquired on behalf of a malformed address;
\* a goroutine of GetBalances that rejects its address has acquired nothing.
C17_InvalidAddressAcquiresNothing ==
    \A t \in Spawned :
        res[t] = "err_invalid"
        => ("acquire" \notin Events(t) /\ conn[t] = Nil)

\* ------------------------------------------------ claims on the wrappers
\* the parameter of p's call is not of the form its method documents
Malformed(p) ==
    IF op[p] = "GetBalance" THEN ~ValidAddress(addr[p])
                            ELSE ~HasHexPrefix(addr[p])

\* C18 as claimed: a wrapper called with a malformed parameter returns the
\* invalid-parameter error without entering withConnection (nothing acquired,
\* no upstream call); with a well-formed one it enters withConnection once.
C18_WrapperValidatesFirst ==
    \A p \in Workers :
        op[p] \in Methods =>
          IF Malformed(p)
            THEN /\ pc[p] = "ret" /\ res[p] = "err_invalid"
                 /\ tr[p] = <<>> /\ conn[p] = Nil
            ELSE /\ Len(tr[p]) >= 1 /\ tr[p][1] = "call"
                 /\ \A i \in 2..Len(tr[p]) : tr[p][i] # "call"

\* -------------------------------------------- claims on the health check
\* C19 as claimed: once a probe has failed on a connection and the check has
\* put a replacement into the pool, no acquire returns the connection that
\* failed the probe.
C19_FailedConnectionNotHandedOut ==
    \A p \in Workers :
        (/\ pc[Monitor] = "hm_wait"
         /\ "replace" \in Events(Monitor)
         /\ pc[p] = "gc_add")
        => conn[p] \notin failedProbe

\* the trace of a finished health check: nothing when the acquire failed,
\* else one acquire, one probe, the replacement attempt when the probe failed,
\* and one release
CheckTraces ==
    {<<>>,
     <<"acquire", "work", "release">>,
     <<"acquire", "work", "replace", "release">>,
     <<"acquire", "work", "noreplace", "release">>}

\* C20: a health check acquires at most one connection, probes it once and has
\* released it when the check ends, whether the probe succeeded, failed, or
\* the replacement factory failed too; connCount counts exactly the
\* goroutines between their add and their subtract, so a finished check has
\* left it where it was.
C20_CheckReleasesWhatItAcquired ==
    /\ \A i \in 1..Len(tr[Monitor]) :
         \E t \in CheckTraces : IsPrefix(SubSeq(tr[Monitor], 1, i), t)
    /\ (pc[Monitor] = "hm_wait" /\ op[Monitor] = "check")
         => (tr[Monitor] \in CheckTraces /\ conn[Monitor] = Nil)
    /\ connCount = Cardinality({p \in InUse : pc[p] # "rc_put"})

\* C20 witness: a check has ended after the probe and the replacement factory
\* both failed, with the connection released.
C20_Witness ==
    /\ pc[Monitor] = "hm_wait"
    /\ tr[Monitor] = <<"acquire", "work", "noreplace", "release">>
    /\ conn[Monitor] = Nil

\* 1 while the health check's connection is counted in connCount
MonitorCount == IF Monitor \in InUse /\ pc[Monitor] # "rc_put" THEN 1 ELSE 0

\* C21 as claimed: a caller's acquire that would succeed with the pool manager
\* idle (connCount without the health check's connection is below maxConns)
\* does not fail with the pool-full error while a health check is under way.
C21_MonitorNeverFailsCaller ==
    [][\A p \in Workers :
         (/\ pc[p] = "gc_load"
          /\ pc'[p] # pc[p]
          /\ connCount - MonitorCount < maxConns)
         => res'[p] # "err_full"]_vars

\* C22: a failure inside a health check (acquire, probe, replacement factory)
\* is not surfaced: a step of the pool manager changes no caller's state or
\* result, the manager goes on to the end of the check and back to waiting
\* for the next tick, and a failed factory puts nothing into the idle set.
C22_CheckFailuresSwallowed ==
    [][pc'[Monitor] # pc[Monitor] =>
         /\ \A w \in Workers :
              /\ pc'[w] = pc[w] /\ res'[w] = res[w]
              /\ conn'[w] = conn[w] /\ tr'[w] = tr[w]
         /\ UNCHANGED <<gerr, gbret, gbpc>>
         /\ (pc[Monitor] \in {"gc_load", "gc_get"}
             /\ pc'[Monitor] \notin {"gc_get", "gc_add"})
              => pc'[Monitor] = "hm_wait"
         /\ pc[Monitor] = "hc_probe"
              => pc'[Monitor] \in {"rc_dec", "hc_replace"}
         /\ pc[Monitor] = "hc_replace"
              => /\ pc'[Monitor] = "rc_dec"
                 /\ "noreplace" \in {tr'[Monitor][i] : i \in 1..Len(tr'[Monitor])}
                      => connPool' = connPool
                 /\ Nil \notin connPool'
         /\ pc[Monitor] = "rc_put" => pc'[Monitor] = "hm_wait"]_vars

\* C22 witness: a check in which the probe and the replacement factory both
\* failed has ended, the manager waits for the next tick, and a caller's
\* operation has returned its result.
C22_Witness ==
    /\ pc[Monitor] = "hm_wait"
    /\ "noreplace" \in Events(Monitor)
    /\ \E w \in Workers : op[w] = "with" /\ pc[w] = "ret" /\ res[w] = "ok"

\* C26 as claimed: the idle set never holds more than maxIdleConns
\* connections, also after probe failures that insert replacements.
C26_IdleWithinMaxIdle == Cardinality(connPool) <= maxIdleConns

\* C23: once the context is cancelled the pool manager eventually stops;
\* stopped, it stays stopped and holds no connection, so it acquires, probes
\* and changes the pool no more; the cancellation step itself changes neither
\* connCount nor the idle set, and no goroutine's connection or position.
C23_CancelStopsMonitor ==
    /\ cancelled ~> (pc[Monitor] = "stopped")
    /\ [][/\ pc[Monitor] = "stopped"
               => /\ pc'[Monitor] = "stopped"
                  /\ conn[Monitor] = Nil /\ conn'[Monitor] = Nil
                  /\ tr'[Monitor] = tr[Monitor]
          /\ (~cancelled /\ cancelled')
               => UNCHANGED <<connCount, connPool, conn, pc, tr>>]_vars

\* C23 witness: the pool manager has stopped while a withConnection call that
\* was in flight at the cancellation still holds its connection.
C23_Witness ==
    /\ cancelled /\ pc[Monitor] = "stopped"
    /\ \E w \in Workers : pc[w] = "fn" /\ conn[w] # Nil /\ connCount > 0

PoolStep ==
    \E p \in Threads :
        pc[p] \in {"gc_load", "gc_get", "gc_add", "rc_dec", "rc_put"}
        /\ pc'[p] # pc[p]

\* C25 as claimed: every change of connCount, and every change of the idle set
\* by a goroutine of the client (sync.Pool dropping objects by itself aside),
\* is a step of getConnection or releaseConnection.
C25_OnlyAcquireReleaseMutate ==
    [][(connCount' # connCount \/ (connPool' # connPool /\ pc' # pc))
       => PoolStep]_vars

\* C25 as amended: connCount is changed only by steps of getConnection and
\* releaseConnection; the idle set is changed only by such steps and by the
\* health check's replacement, which puts one new connection into the pool
\* itself and leaves connCount alone; the goroutines of GetBalances change
\* neither outside getConnection and releaseConnection.
C25_MutationsByPoolStepsOrReplacement ==
    [][/\ connCount' # connCount => PoolStep
       /\ (connPool' # connPool /\ pc' # pc /\ ~PoolStep)
            => /\ pc[Monitor] = "hc_replace" /\ pc'[Monitor] = "rc_dec"
               /\ \E n \in ConnIds \ Live : connPool' = connPool \cup {n}
               /\ connCount' = connCount
               /\ \A t \in Workers : pc'[t] = pc[t]]_vars

\* C25 witness: the health check has put a replacement into the idle set
\* and a goroutine of GetBalances, having acquired, is about to store its
\* balance.
C25_Witness ==
    /\ pc[Monitor] = "rc_dec" /\ "replace" \in Events(Monitor)
    /\ \E t \in Spawned : pc[t] = "t_store" /\ conn[t] # Nil

\* C29: getConnection never waits: a goroutine of GetBalances at the limit
\* check can always take its step, and with connCount at maxConns that step
\* ends it with the pool-full error; so a call whose addresses are all valid,
\* within maxAddresses, and whose upstream calls all succeed can still return
\* the pool-full error.
C29_BatchTaskNeverWaits ==
    /\ \A t \in Spawned : pc[t] = "gc_load" => ENABLED getConnection_Load(t)
    /\ \A t \in Spawned :
         (res[t] = "err_full") => (pc[t] \in {"t_exit", "done"}
                                   /\ tr[t] = <<>> /\ conn[t] = Nil)
    /\ (gbpc = "ret" /\ \E t \in Spawned : res[t] = "err_full")
         => (gbret.isnil /\ gbret.err \in Failures)

\* C29 witness: GetBalances for two valid addresses, within maxAddresses,
\* returned the pool-full error; the only upstream call made succeeded.
C29_Witness ==
    /\ gbpc = "ret" /\ gbret.err = "err_full"
    /\ Len(addresses) = 2 /\ Len(addresses) <= EffectiveMaxAddr(maxAddresses)
    /\ \A i \in 1..Len(addresses) : ValidAddress(addresses[i])
    /\ \E t, u \in Spawned : res[t] = "ok" /\ res[u] = "err_full"

\* the block parameter that a call with the block reference r must hand to
\* the node: the tag "latest" for the empty reference, r itself otherwise
Expected(r, b) == IF r = "" THEN b = [kind |-> "tag", v |-> "latest"]
                            ELSE b.v = r

\* C27: in every wrapper that takes a block reference, an empty reference
\* reaches the node as "latest" and a non-empty one reaches it unchanged: a
\* single-address wrapper or Call that has called the node gave it the block
\* its numberOrTag argument stands for, and so did every goroutine of
\* GetBalances; the empty reference is never rejected as an invalid block; and
\* normalizing a reference twice gives what normalizing it once gives.
C27_EmptyReferenceIsLatest ==
    /\ \A p \in Workers :
          /\ (op[p] \in RefMethods /\ "work" \in Events(p))
                => Expected(numberOrTag[p], upstream[p])
          /\ (op[p] \in RefMethods /\ numberOrTag[p] = "")
                => res[p] # "err_block"
          /\ (op[p] = "task" /\ upstream[p] # NoBlock)
                => Expected(gbNumberOrTag, upstream[p])
    /\ gbNumberOrTag = "" => gbret.err # "err_block"
    /\ \A r \in Refs :
          getDefaultNumberOrTag(getDefaultNumberOrTag(r))
              = getDefaultNumberOrTag(r)

\* an empty reference and a non-empty one have both reached the node, one
\* from a single-address wrapper and one from a goroutine of GetBalances
C27_Witness ==
    \E p, t \in Workers :
        /\ op[p] \in RefMethods /\ "work" \in Events(p)
        /\ op[t] = "task" /\ upstream[t] # NoBlock
        /\ \/ numberOrTag[p] = "" /\ gbNumberOrTag = "earliest"
           \/ numberOrTag[p] = "0x1" /\ gbNumberOrTag = ""

\* C30: Call treats the sender as optional: called with from == "", a valid
\* to address and a valid block reference, it goes on to withConnection and
\* never aborts the process.  (Stated as claimed; client.go:482 dereferences
\* fromAddr, which is nil when from is empty.)
C30_CallWithoutSenderProceeds ==
    \A p \in Workers :
        (/\ op[p] = "Call"
         /\ from[p] = ""
         /\ ValidAddress(addr[p])
         /\ MustBlockNumberOrTag(getDefaultNumberOrTag(numberOrTag[p]))
               # NilBlock)
        => pc[p] # "panic" /\ tr[p] # <<>>

\* the path parameter of the request is one the claim calls valid: a
\* non-empty hash or address, an unsigned decimal integer of 64 bits
ValidParam ==
    IF request.route = "GetTransactionByIndex"
    THEN /\ request.param # <<>>
         /\ \A i \in DOMAIN request.param : IsDigit(request.param[i])
         /\ ~AboveMaxUint64(request.param)
    ELSE request.param # <<>>

\* C28: the HTTP handlers check the path parameter before they delegate: for
\* an empty transaction hash, an empty address or an index that is not an
\* unsigned decimal integer the response has the error status and the
\* handler's message and the service is never called; for a valid parameter
\* the service is called exactly once, and its error, if any, is the error
\* of the response.
C28_HandlersValidateFirst ==
    /\ ~ValidParam => svcCalls = <<>>
    /\ Len(svcCalls) <= 1
    /\ hpc = "done" =>
          IF ~ValidParam
          THEN /\ response.status = StatusInternalServerError
               /\ response.error = ParamError(request.route)
          ELSE /\ Len(svcCalls) = 1
               /\ svcCalls[1].route = request.route
               /\ IF svcCalls[1].err # "none"
                    THEN /\ response.status = StatusInternalServerError
                         /\ response.error = svcCalls[1].err
                    ELSE /\ response.status = StatusOK
                         /\ response.error = "none"

\* an index with a sign has been answered with the handler's error
C28_Witness ==
    /\ hpc = "done"
    /\ request = [route |-> "GetTransactionByIndex", param |-> <<"-", "1">>]
    /\ response.error = "invalid transaction index"
    /\ svcCalls = <<>>

====
